---------------------------- MODULE Spec2Model ----------------------------
(***************************************************************************)
(* Model of the background document processor of maestro_backend:         *)
(* services/background_document_processor.py (worker loop, job selector,  *)
(* pipeline runner, progress reporter) with the storage layer, the        *)
(* notification channel, the artifact files and the vector index as its   *)
(* environment.                                                            *)
(***************************************************************************)
EXTENDS Integers, Sequences, FiniteSets, TLC

\* ------------------------------------------------------------------ bounds
MaxJobs == 2       \* submissions: document inserts plus external re-queues
MaxChunks == 1     \* chunks the chunker may produce for one document
MaxFaults == 1     \* errors raised inside the pipeline by calls that may fail
MaxCallers == 3    \* threads that call the accessors of the shared resources
MaxCrashes == 1    \* kills of the process, each followed by a restart

DocIds == 1..MaxJobs
JobIds == 1..MaxJobs

None == "None"

\* ------------------------------------------------------------ python values
\* A dict is a function whose DOMAIN is its key set; {} is the empty function.
EmptyDict == [k \in {} |-> None]

\* dict.get(k): the value, or None when the key is absent.
Get(d, k) == IF k \in DOMAIN d THEN d[k] ELSE None

\* Truthiness of a scalar (None and "" are falsy) and of a dict ({} is falsy).
Truthy(v) == v # None /\ v # ""

TruthyDict(d) == DOMAIN d # {}

\* a or b
Or(a, b) == IF Truthy(a) THEN a ELSE b

\* {**a, **b}: keys of both, b wins.
DictMerge(a, b) ==
    [k \in (DOMAIN a) \cup (DOMAIN b) |-> IF k \in DOMAIN b THEN b[k] ELSE a[k]]

\* ---------------------------------------------------------------- filenames
\* Filenames are sequences of characters so that lower() and endswith() are
\* computed, not assumed.
Upper == <<"A", "B", "C", "D", "F", "K", "M", "N", "O", "P", "R", "W", "X", "Y", "Z">>
Lower == <<"a", "b", "c", "d", "f", "k", "m", "n", "o", "p", "r", "w", "x", "y", "z">>

LowerChar(c) ==
    IF \E i \in 1..Len(Upper) : Upper[i] = c
    THEN Lower[CHOOSE i \in 1..Len(Upper) : Upper[i] = c]
    ELSE c

\* str.lower()
ToLower(s) == [i \in 1..Len(s) |-> LowerChar(s[i])]

\* str.endswith(suffix)
EndsWith(s, suf) ==
    /\ Len(suf) <= Len(s)
    /\ \A i \in 1..Len(suf) : s[Len(s) - Len(suf) + i] = suf[i]

DotPdf == <<".", "p", "d", "f">>
DotDocx == <<".", "d", "o", "c", "x">>
DotDoc == <<".", "d", "o", "c">>
DotMd == <<".", "m", "d">>
DotMarkdown == <<".", "m", "a", "r", "k", "d", "o", "w", "n">>

\* The part of a lower-cased name after its last dot (the whole name when it
\* has no dot): original_filename.lower().split('.')[-1]
RECURSIVE LastPart(_)
LastPart(s) ==
    IF s = <<>> THEN <<>>
    ELSE IF s[Len(s)] = "." THEN <<>>
    ELSE Append(LastPart(SubSeq(s, 1, Len(s) - 1)), s[Len(s)])

FileExtension(fn) == LastPart(ToLower(fn))

SupportedExtensions ==
    {<<"p", "d", "f">>, <<"d", "o", "c">>, <<"d", "o", "c", "x">>,
     <<"m", "d">>, <<"m", "a", "r", "k", "d", "o", "w", "n">>}

\* The file names the environment uploads.
NamePdf == <<"A", ".", "P", "D", "F">>
NameDocx == <<"r", ".", "d", "o", "c", "x">>
NameMd == <<"n", ".", "m", "d">>
NameXyz == <<"x", ".", "x", "y", "z">>

Filenames == {NamePdf, NameDocx, NameMd, NameXyz}

\* A category chain without the final raise: every name that is neither a
\* PDF nor Markdown is handled as a Word document.
FileCategoryDocsFirst(fn) ==
    IF EndsWith(ToLower(fn), DotPdf) THEN "pdf"
    ELSE IF EndsWith(ToLower(fn), DotMd) \/ EndsWith(ToLower(fn), DotMarkdown)
    THEN "markdown"
    ELSE "word"

\* The category chain of _process_document_sync; "unsupported" is the raise.
FileCategory(fn) ==
    IF EndsWith(ToLower(fn), DotPdf) THEN "pdf"
    ELSE IF EndsWith(ToLower(fn), DotDocx) \/ EndsWith(ToLower(fn), DotDoc)
    THEN "word"
    ELSE IF EndsWith(ToLower(fn), DotMd) \/ EndsWith(ToLower(fn), DotMarkdown)
    THEN "markdown"
    ELSE "unsupported"

\* ------------------------------------------------------------------- state
VARIABLES
    docs,             \* documents table: DocIds -> row
    nextDoc,          \* next document id the environment inserts
    resets,           \* external re-queues done so far
    mdFiles,          \* doc ids with a {doc_id}.md artifact
    jsonFiles,        \* doc ids with a {doc_id}.json artifact
    indexed,          \* chunks stored in the vector index, per doc id
    channel,          \* notifications sent to the listening connection, not yet polled
    notifies,         \* conn.connection.notifies after poll()
    listening,        \* the LISTEN connection is open
    shutdown_event,   \* self.shutdown_event
    pc,               \* position of the worker thread
    caller,           \* call site of _process_next_document: "drain" or "poll"
    raised,           \* an exception is propagating out of _process_next_document
    document,         \* local `document` of _process_next_document (0 is None)
    current_job,      \* self.current_job
    is_processing,    \* self.is_processing
    result,           \* value returned by the last _process_next_document
    final_metadata,   \* local of _process_document_sync
    markdown_content, \* local of _process_document_sync
    chunks,           \* len(chunks)
    chunks_added_count,
    error_msg,        \* str(e) of the exception caught by the pipeline
    success,          \* value returned by _process_document_sync
    nextJob,          \* stands for uuid4(): job ids are fresh
    jobs,             \* every ProcessingJob created, with the status last reported for it
    observed,         \* <<progress, status>> written and pushed for the current run's document
    stages,           \* stages the current run has entered, in order
    embedCalls,       \* embed_chunks calls of the current run
    indexWrites,      \* chunks add_chunks wrote in the current run
    cleanup,          \* cleanup_failed_document_improved in the current run
    meta_before,      \* metadata of the current run's document when it was claimed
    files_before,     \* artifacts ("md", "json") of that document when it was claimed
    faults,           \* errors raised so far inside the pipeline
    last_selection,   \* outcome of the latest selection since the last wake: "none" or "found"
    other,            \* doc ids claimed by a second instance of the service
    job_rows,         \* rows of the DocumentProcessingJob table
    registry,         \* _embedder, _vector_store, _processor and _components_lock
    callers,          \* threads calling the accessors of the registry: their call stacks
    processor,        \* local `processor` of _process_document_sync
    tolerated,        \* failures the current run has caught and only logged
    degraded,         \* the progress endpoint and the settings storage may fail
    hint,             \* payload of the notification popped for the call now at its selection
    crash             \* kills of the process so far, and the documents they left in processing

envVars == <<docs, nextDoc, resets, mdFiles, jsonFiles, indexed, channel, notifies,
             listening, shutdown_event>>
loopVars == <<pc, caller, raised, document, current_job, is_processing, result>>
pipeVars == <<final_metadata, markdown_content, chunks, chunks_added_count, error_msg,
              success>>
histVars == <<nextJob, jobs, observed, stages, embedCalls, indexWrites, cleanup,
              meta_before, files_before>>
compVars == <<job_rows, registry, callers, processor, tolerated, degraded>>
vars == <<envVars, loopVars, pipeVars, histVars, faults, last_selection, other, compVars,
         hint, crash>>

\* A call made by the pipeline fails (at most MaxFaults times) or does not.
Fault == faults < MaxFaults /\ faults' = faults + 1

NoFault == faults' = faults

NoJob == [job_id |-> 0, doc_id |-> 0]

\* Metadata a document may carry when it is inserted (metadata_ None reads as {}).
MetaHash == [k \in {"file_hash"} |-> "h0"]
MetaHashTitle == [k \in {"file_hash", "title"} |-> IF k = "title" THEN "Old title" ELSE "h0"]

\* The users table: the settings of each user that has a row. User 3 has
\* empty settings, user 4 has no row.
Users ==
    [u \in {1, 2, 3} |->
        [id |-> u,
         settings |-> CASE u = 1 -> [metadata_model |-> "m1"]
                        [] u = 2 -> [metadata_model |-> "m2"]
                        [] OTHER -> EmptyDict]]

\* The value None where a user row is expected.
NoUser == [id |-> 0, settings |-> EmptyDict]

\* crud.get_user(db, user_id): the row, or None.
get_user(u) == IF u \in DOMAIN Users THEN Users[u] ELSE NoUser

\* The rows the environment inserts: status, file name, owning user and
\* metadata. A row ingested by the command-line tool carries the status
\* cli_processing.
Uploads ==
    {[status |-> "pending", filename |-> NamePdf, user_id |-> 1, meta |-> MetaHashTitle],
     [status |-> "queued", filename |-> NameDocx, user_id |-> 2, meta |-> EmptyDict],
     [status |-> "pending", filename |-> NameMd, user_id |-> 3, meta |-> MetaHash],
     [status |-> "queued", filename |-> NameXyz, user_id |-> 4, meta |-> MetaHash],
     [status |-> "cli_processing", filename |-> NameMd, user_id |-> 1, meta |-> EmptyDict]}

\* The lazily built components of the service object: the field is 0 while
\* it is None, and an instance is named by the number of its construction.
\* owner and depth are the RLock _components_lock (owner 0: not held).
\* built counts the constructions made and returned collects the instances
\* the accessors handed out.
Components == {"embedder", "vector_store", "processor"}

RegistryInit ==
    [embedder |-> 0, vector_store |-> 0, processor |-> 0, owner |-> 0, depth |-> 0,
     built |-> [c \in Components |-> 0],
     returned |-> [c \in Components |-> {}]]

\* The accessors: _get_embedder, _get_vector_store, _get_processor and
\* _get_processor_with_user_settings.
Accessors == Components \cup {"processor_with_user_settings"}

\* The threads that may call an accessor.
Threads == 1..MaxCallers

\* The local `processor` before it is assigned.
NoProcessor == [metadata_extractor |-> None, embedder |-> 0, vector_store |-> 0]

AbsentRow ==
    [status |-> "absent", progress |-> 0, error |-> None, chunk_count |-> 0,
     meta |-> EmptyDict, filename |-> <<>>, user_id |-> 0]

\* The service object after __init__, the tables empty.
Started ==
    /\ docs = [d \in DocIds |-> AbsentRow]
    /\ nextDoc = 1
    /\ resets = 0
    /\ mdFiles = {}
    /\ jsonFiles = {}
    /\ indexed = [d \in DocIds |-> 0]
    /\ channel = 0
    /\ notifies = 0
    /\ listening = FALSE
    /\ shutdown_event = FALSE
    /\ pc = "outer"
    /\ caller = "drain"
    /\ raised = FALSE
    /\ document = 0
    /\ current_job = NoJob
    /\ is_processing = FALSE
    /\ result = FALSE
    /\ final_metadata = EmptyDict
    /\ markdown_content = ""
    /\ chunks = 0
    /\ chunks_added_count = 0
    /\ error_msg = None
    /\ success = FALSE
    /\ nextJob = 1
    /\ jobs = [j \in JobIds |-> [doc_id |-> 0, status |-> "none", progress |-> 0]]
    /\ observed = <<>>
    /\ stages = <<>>
    /\ embedCalls = 0
    /\ indexWrites = 0
    /\ cleanup = "none"
    /\ meta_before = EmptyDict
    /\ files_before = {}
    /\ faults = 0
    /\ last_selection = "unset"
    /\ other = {}
    /\ job_rows = {}
    /\ registry = RegistryInit
    /\ callers = [t \in Threads |-> <<>>]
    /\ processor = NoProcessor
    /\ tolerated = {}
    /\ hint = 0
    /\ crash = [count |-> 0, stuck |-> {}]

\* The service starts with its surroundings in order.
Init == Started /\ degraded = FALSE

\* The service starts while the progress endpoint and the settings storage
\* are unreliable.
DegradedInit == Started /\ degraded = TRUE

\* ------------------------------------------------------------- storage layer
\* An eligibility that takes failed documents back into the queue.
EligibleOrFailed(row) == row.status \in {"pending", "queued", "failed"}

\* Eligible for dequeue only while the status is pending or queued.
Eligible(row) == row.status \in {"pending", "queued"}

\* A selector that ignores the status: the oldest document of the table.
get_next_document_any_status(ds) ==
    IF \E d \in DocIds : ds[d].status # "absent"
    THEN CHOOSE d \in DocIds :
            /\ ds[d].status # "absent"
            /\ \A e \in DocIds : ds[e].status # "absent" => d <= e
    ELSE 0

\* crud.get_next_queued_document: the oldest eligible document (ids are given
\* in insertion order), 0 when there is none.
get_next_queued_document(ds) ==
    IF \E d \in DocIds : Eligible(ds[d])
    THEN CHOOSE d \in DocIds :
            /\ Eligible(ds[d])
            /\ \A e \in DocIds : Eligible(ds[e]) => d <= e
    ELSE 0

\* crud.update_document_status(db, doc_id, user_id, status, progress)
update_document_status(ds, d, status, progress) ==
    IF d \in DocIds /\ ds[d].status # "absent"
    THEN [ds EXCEPT ![d].status = status, ![d].progress = progress]
    ELSE ds

\* crud.update_document_status(..., chunk_count=n)
update_document_status_chunks(ds, d, status, progress, n) ==
    IF d \in DocIds /\ ds[d].status # "absent"
    THEN [ds EXCEPT ![d].status = status, ![d].progress = progress,
                    ![d].chunk_count = n]
    ELSE ds

\* ---------------------------------------------------------------- environment
\* Submissions so far.
Submitted == (nextDoc - 1) + resets

\* A document row is inserted; for a pending or queued row the insert
\* trigger notifies the document_queue channel, which reaches an open LISTEN
\* connection only.
Enqueue ==
    /\ UNCHANGED <<other, last_selection, degraded, hint, crash>>
    /\ UNCHANGED <<job_rows, registry, callers, processor, tolerated>>
    /\ UNCHANGED faults
    /\ Submitted < MaxJobs
    /\ \E u \in Uploads :
          /\ docs' = [docs EXCEPT ![nextDoc] =
                         [AbsentRow EXCEPT !.status = u.status, !.filename = u.filename,
                                           !.user_id = u.user_id, !.meta = u.meta]]
          /\ channel' = IF listening /\ Eligible(u) THEN channel + 1 ELSE channel
    /\ nextDoc' = nextDoc + 1
    /\ UNCHANGED <<resets, mdFiles, jsonFiles, indexed, notifies, listening,
                   shutdown_event>>
    /\ UNCHANGED <<loopVars, pipeVars, histVars>>

\* An external action re-queues a failed document by resetting its status; an
\* UPDATE fires no insert trigger.
ExternalReset ==
    /\ UNCHANGED <<other, last_selection, degraded, hint, crash>>
    /\ UNCHANGED <<job_rows, registry, callers, processor, tolerated>>
    /\ UNCHANGED faults
    /\ Submitted < MaxJobs
    /\ \E d \in DocIds :
          /\ docs[d].status = "failed"
          /\ docs' = [docs EXCEPT ![d].status = "pending"]
    /\ resets' = resets + 1
    /\ UNCHANGED <<nextDoc, mdFiles, jsonFiles, indexed, channel, notifies, listening,
                   shutdown_event>>
    /\ UNCHANGED <<loopVars, pipeVars, histVars>>

\* shutdown()
Shutdown ==
    /\ UNCHANGED <<other, last_selection, degraded, hint, crash>>
    /\ UNCHANGED <<job_rows, registry, callers, processor, tolerated>>
    /\ UNCHANGED faults
    /\ ~shutdown_event
    /\ shutdown_event' = TRUE
    /\ UNCHANGED <<docs, nextDoc, resets, mdFiles, jsonFiles, indexed, channel,
                   notifies, listening>>
    /\ UNCHANGED <<loopVars, pipeVars, histVars>>

\* ------------------------------------------------- shared resource registry
\* A lock that never makes a caller wait.
LockAlwaysFree(reg, t) == TRUE

\* A plain Lock: free only when nobody holds it, its holder included.
LockNotReentrant(reg, t) == reg.owner = 0

\* with self._components_lock: an RLock is free for a thread when nobody
\* holds it or the thread itself does.
LockFree(reg, t) == reg.owner \in {0, t}

Acquired(reg, t) == [reg EXCEPT !.owner = t, !.depth = @ + 1]

\* Leaving n nested with-blocks.
Released(reg, n) ==
    [reg EXCEPT !.depth = @ - n, !.owner = IF reg.depth - n = 0 THEN 0 ELSE @]

\* self._embedder = TextEmbedder(...), self._vector_store = get_vector_store(),
\* self._processor = DocumentProcessor(...)
Constructed(reg, c) == [reg EXCEPT ![c] = reg.built[c] + 1, !.built[c] = @ + 1]

\* return self._embedder (and the like)
Handed(reg, c) == [reg EXCEPT !.returned[c] = @ \cup {reg[c]}]

\* The body of _get_embedder or _get_vector_store run to its return with the
\* lock held: if the field is None it is built, then it is returned.
Gotten(reg, c) == Handed(IF reg[c] = 0 THEN Constructed(reg, c) ELSE reg, c)

\* A frame of a call of an accessor: how far it is, and its locals.
Frame(fn) == [fn |-> fn, at |-> "enter", embedder |-> 0, vector_store |-> 0]

Top(t) == callers[t][Len(callers[t])]

\* The stack with its top frame replaced.
WithTop(t, frame) == [callers[t] EXCEPT ![Len(callers[t])] = frame]

\* A thread calls one of the accessors.
AccCall(t) ==
    /\ callers[t] = <<>>
    /\ \E fn \in Accessors : callers' = [callers EXCEPT ![t] = <<Frame(fn)>>]
    /\ UNCHANGED registry

\* with self._components_lock:
AccEnter(t) ==
    /\ callers[t] # <<>>
    /\ Top(t).at = "enter"
    /\ LockFree(registry, t)
    /\ registry' = Acquired(registry, t)
    /\ callers' = [callers EXCEPT ![t] =
                      WithTop(t, [Top(t) EXCEPT !.at =
                                     IF Top(t).fn = "processor_with_user_settings"
                                     THEN "call_embedder" ELSE "test"])]

\* if self._x is None:
AccTest(t) ==
    /\ callers[t] # <<>>
    /\ Top(t).at = "test"
    /\ callers' = [callers EXCEPT ![t] =
                      WithTop(t, [Top(t) EXCEPT !.at =
                                     IF registry[Top(t).fn] # 0 THEN "exit"
                                     ELSE IF Top(t).fn = "processor" THEN "call_embedder"
                                     ELSE "build"])]
    /\ UNCHANGED registry

\* embedder = self._get_embedder(); vector_store = self._get_vector_store()
AccNested(t) ==
    /\ callers[t] # <<>>
    /\ Top(t).at \in {"call_embedder", "call_vector_store"}
    /\ callers' = [callers EXCEPT ![t] =
                      Append(WithTop(t, [Top(t) EXCEPT !.at =
                                            IF Top(t).at = "call_embedder"
                                            THEN "call_vector_store" ELSE "build"]),
                             Frame(IF Top(t).at = "call_embedder"
                                   THEN "embedder" ELSE "vector_store"))]
    /\ UNCHANGED registry

\* The construction: it assigns the field, or raises, and then every
\* with-block of the thread is left and the call is over. The processor of
\* _get_processor_with_user_settings is a local, no field is assigned.
AccBuild(t) ==
    /\ callers[t] # <<>>
    /\ Top(t).at = "build"
    /\ \/ /\ registry' = IF Top(t).fn \in Components
                         THEN Constructed(registry, Top(t).fn) ELSE registry
          /\ callers' = [callers EXCEPT ![t] = WithTop(t, [Top(t) EXCEPT !.at = "exit"])]
       \/ /\ registry' = Released(registry, Len(callers[t]))
          /\ callers' = [callers EXCEPT ![t] = <<>>]

\* return self._x: the with-block is left and the caller has the instance.
AccExit(t) ==
    /\ callers[t] # <<>>
    /\ Top(t).at = "exit"
    /\ registry' = Released(IF Top(t).fn \in Components
                            THEN Handed(registry, Top(t).fn) ELSE registry, 1)
    /\ callers' = [callers EXCEPT ![t] =
                      IF Len(callers[t]) = 1 THEN <<>>
                      ELSE [i \in 1..(Len(callers[t]) - 1) |->
                              IF i = Len(callers[t]) - 1
                              THEN [callers[t][i] EXCEPT ![Top(t).fn] = registry[Top(t).fn]]
                              ELSE callers[t][i]]]

\* What a step inside the accessors leaves alone.
AccFrame ==
    /\ UNCHANGED <<envVars, loopVars, pipeVars, histVars, faults, last_selection, other>>
    /\ UNCHANGED <<job_rows, processor, tolerated, degraded, hint, crash>>

CallerCalls == (\E t \in Threads : AccCall(t)) /\ AccFrame

CallerEnters == (\E t \in Threads : AccEnter(t)) /\ AccFrame

CallerTests == (\E t \in Threads : AccTest(t)) /\ AccFrame

CallerCallsNested == (\E t \in Threads : AccNested(t)) /\ AccFrame

CallerBuilds == (\E t \in Threads : AccBuild(t)) /\ AccFrame

CallerReturns == (\E t \in Threads : AccExit(t)) /\ AccFrame

\* ---------------------------------------------------------------- worker loop
jobFrame == <<pipeVars, histVars>>

\* Entering _process_next_document from a call site.
Call(site) ==
    /\ pc' = "select"
    /\ caller' = site

\* An outer loop that never looks at the shutdown flag.
LoopOuterNoShutdownCheck ==
    /\ UNCHANGED <<other, last_selection, degraded, hint, crash>>
    /\ UNCHANGED <<job_rows, registry, callers, processor, tolerated>>
    /\ UNCHANGED faults
    /\ pc = "outer"
    /\ pc' = "listen"
    /\ UNCHANGED <<caller, raised, document, current_job, is_processing, result>>
    /\ UNCHANGED <<envVars, jobFrame>>

\* while not self.shutdown_event.is_set():   (outer loop)
LoopOuter ==
    /\ UNCHANGED <<other, last_selection, degraded, hint, crash>>
    /\ UNCHANGED <<job_rows, registry, callers, processor, tolerated>>
    /\ UNCHANGED faults
    /\ pc = "outer"
    /\ pc' = IF shutdown_event THEN "exited" ELSE "listen"
    /\ UNCHANGED <<caller, raised, document, current_job, is_processing, result>>
    /\ UNCHANGED <<envVars, jobFrame>>

\* with engine.connect() as conn: ... conn.execute(text("LISTEN document_queue")).
\* The statement raises when the connection cannot be made or used; the
\* module also never imports the name `text`.
LoopListen ==
    /\ UNCHANGED <<other, last_selection, degraded, hint, crash>>
    /\ UNCHANGED <<job_rows, registry, callers, processor, tolerated>>
    /\ UNCHANGED faults
    /\ pc = "listen"
    /\ \/ /\ listening' = TRUE
          /\ pc' = "inner"
       \/ /\ listening' = FALSE
          /\ pc' = "loop_except"
    /\ channel' = 0
    /\ notifies' = 0
    /\ UNCHANGED <<docs, nextDoc, resets, mdFiles, jsonFiles, indexed, shutdown_event>>
    /\ UNCHANGED <<caller, raised, document, current_job, is_processing, result>>
    /\ UNCHANGED jobFrame

\* while not self.shutdown_event.is_set():   (inner loop); leaving it closes
\* the connection and returns to the outer loop test.
LoopInner ==
    /\ UNCHANGED <<other, last_selection, degraded, hint, crash>>
    /\ UNCHANGED <<job_rows, registry, callers, processor, tolerated>>
    /\ UNCHANGED faults
    /\ pc = "inner"
    /\ IF shutdown_event
       THEN /\ pc' = "outer"
            /\ listening' = FALSE
            /\ channel' = 0
            /\ notifies' = 0
            /\ UNCHANGED caller
       ELSE /\ Call("drain")
            /\ UNCHANGED <<listening, channel, notifies>>
    /\ UNCHANGED <<docs, nextDoc, resets, mdFiles, jsonFiles, indexed, shutdown_event>>
    /\ UNCHANGED <<raised, document, current_job, is_processing, result>>
    /\ UNCHANGED jobFrame

\* A drain that selects once and then waits, whatever the call returned.
LoopDrainOnce ==
    /\ UNCHANGED <<other, last_selection, degraded, hint, crash>>
    /\ UNCHANGED <<job_rows, registry, callers, processor, tolerated>>
    /\ UNCHANGED faults
    /\ pc = "drain_ret"
    /\ pc' = "wait" /\ UNCHANGED caller
    /\ result' = FALSE
    /\ UNCHANGED <<raised, document, current_job, is_processing>>
    /\ UNCHANGED <<envVars, jobFrame>>

\* while self._process_next_document(): pass
LoopDrain ==
    /\ UNCHANGED <<other, last_selection, degraded, hint, crash>>
    /\ UNCHANGED <<job_rows, registry, callers, processor, tolerated>>
    /\ UNCHANGED faults
    /\ pc = "drain_ret"
    /\ IF result THEN Call("drain") ELSE pc' = "wait" /\ UNCHANGED caller
    /\ result' = FALSE
    /\ UNCHANGED <<raised, document, current_job, is_processing>>
    /\ UNCHANGED <<envVars, jobFrame>>

\* select.select([conn.connection], [], [], 60); conn.connection.poll():
\* returns on a notification or after the timeout, then poll() moves what
\* the socket received into conn.connection.notifies. A lost connection
\* raises.
LoopWait ==
    /\ UNCHANGED <<other, degraded, hint, crash>>
    /\ UNCHANGED <<job_rows, registry, callers, processor, tolerated>>
    /\ last_selection' = "unset"
    /\ UNCHANGED faults
    /\ pc = "wait"
    /\ \/ /\ notifies' = notifies + channel
          /\ channel' = 0
          /\ pc' = "poll"
          /\ UNCHANGED listening
       \/ /\ listening' = FALSE
          /\ notifies' = 0
          /\ channel' = 0
          /\ pc' = "loop_except"
    /\ UNCHANGED <<docs, nextDoc, resets, mdFiles, jsonFiles, indexed, shutdown_event>>
    /\ UNCHANGED <<caller, raised, document, current_job, is_processing, result>>
    /\ UNCHANGED jobFrame

\* What a notification may carry: the trigger sends the id of the inserted
\* row, and any session may NOTIFY the channel with any text. The model
\* counts the notifications and lets each carry any document id or an id of
\* no document.
Payloads == 1..(MaxJobs + 1)

\* while conn.connection.notifies: notification = notifies.pop(0); the
\* payload is printed; self._process_next_document() is called without it.
LoopPoll ==
    /\ UNCHANGED <<other, last_selection, degraded, crash>>
    /\ UNCHANGED <<job_rows, registry, callers, processor, tolerated>>
    /\ UNCHANGED faults
    /\ pc = "poll"
    /\ IF notifies > 0
       THEN /\ notifies' = notifies - 1
            /\ \E payload \in Payloads : hint' = payload
            /\ Call("poll")
       ELSE /\ pc' = "inner"
            /\ UNCHANGED <<notifies, caller, hint>>
    /\ result' = FALSE
    /\ UNCHANGED <<docs, nextDoc, resets, mdFiles, jsonFiles, indexed, channel,
                   listening, shutdown_event>>
    /\ UNCHANGED <<raised, document, current_job, is_processing>>
    /\ UNCHANGED jobFrame

\* except Exception as e: print(..., exc_info=True): print() takes no
\* exc_info keyword, so the handler itself raises TypeError, which leaves
\* _worker_loop and ends the thread before time.sleep(30).
LoopExcept ==
    /\ UNCHANGED <<other, last_selection, degraded, hint, crash>>
    /\ UNCHANGED <<job_rows, registry, callers, processor, tolerated>>
    /\ UNCHANGED faults
    /\ pc = "loop_except"
    /\ pc' = "dead"
    /\ raised' = FALSE
    /\ listening' = FALSE
    /\ channel' = 0
    /\ notifies' = 0
    /\ UNCHANGED <<docs, nextDoc, resets, mdFiles, jsonFiles, indexed, shutdown_event>>
    /\ UNCHANGED <<caller, document, current_job, is_processing, result>>
    /\ UNCHANGED jobFrame

\* ------------------------------------------------------- progress reporter
\* A progress write that stays in a transaction left open until the run
\* ends: storage does not show it.
DocProgressWriteDeferred(ds, d, progress, status, err) == ds

\* _update_document_progress_sync: the durable write of the document row
\* (skipped when the row is missing; the error column only when a message is
\* given).
DocProgressWrite(ds, d, progress, status, err) ==
    IF d \in DocIds /\ ds[d].status # "absent"
    THEN [ds EXCEPT ![d].progress = progress, ![d].status = status,
                    ![d].error = IF Truthy(err) THEN err ELSE @]
    ELSE ds

\* The update handed to _send_progress_update_sync after the write.
Pushed(obs, progress, status) == Append(obs, <<progress, status>>)

\* What becomes of a push: delivered, a requests.exceptions.RequestException
\* (connection error, timeout, or raise_for_status on a non-success
\* response), or another error while the update is built or sent.
PushOutcomes == {"delivered", "request_error", "other_error"}

\* The outcomes a push may have now.
PushNow == IF degraded THEN PushOutcomes ELSE {"delivered"}

\* _send_progress_update_sync: its except clause catches RequestException
\* only, any other error leaves it.
SendRaises(push) == push = "other_error"

\* A progress write that lets the error of its push through.
ProgressWriteRaisesUncaught(push) == SendRaises(push)

\* _update_document_progress_sync: what _send_progress_update_sync lets
\* through is caught by `except Exception` and printed.
ProgressWriteRaises(push) == SendRaises(push) /\ FALSE

\* The failures caught and logged so far, with that of a push.
Logged(log, push) == IF push = "delivered" THEN log ELSE log \cup {"push"}

\* _update_job_progress_sync: the status and progress reported for the job.
JobProgress(js, j, progress, status) ==
    [js EXCEPT ![j].status = status, ![j].progress = progress]

\* _update_job_progress_sync: the row with the job's id is read and, `if
\* job:`, written; nothing is inserted.
JobRowWrite(rows, j, progress, status, err) ==
    {IF r.id = j
     THEN [r EXCEPT !.progress = progress, !.status = status,
                    !.error = IF Truthy(err) THEN err ELSE @]
     ELSE r : r \in rows}

\* error_msg = f"Processing failed: {str(e)}"
ErrorText(e) ==
    CASE e = "unsupported" -> "Processing failed: Unsupported file format"
      [] e = "empty" -> "Processing failed: Document processing produced empty markdown content"
      [] OTHER -> "Processing failed: stage error"

\* ------------------------------------------------- _process_next_document
\* Return from _process_next_document to its call site.
Return(value) ==
    /\ result' = value
    /\ pc' = IF caller = "drain" THEN "drain_ret" ELSE "poll"

\* The locals of a finished call are gone, and with them the record kept of
\* the run.
FrameDropped ==
    /\ final_metadata' = EmptyDict
    /\ markdown_content' = ""
    /\ chunks' = 0
    /\ chunks_added_count' = 0
    /\ error_msg' = None
    /\ success' = FALSE
    /\ observed' = <<>>
    /\ stages' = <<>>
    /\ embedCalls' = 0
    /\ indexWrites' = 0
    /\ cleanup' = "none"
    /\ meta_before' = EmptyDict
    /\ files_before' = {}
    /\ processor' = NoProcessor
    /\ tolerated' = {}
    /\ UNCHANGED <<nextJob, jobs>>

\* A selection that takes the document the notification names, when it
\* names one.
ProcSelectHinted ==
    /\ UNCHANGED <<other, degraded, crash>>
    /\ UNCHANGED <<job_rows, registry, callers, processor, tolerated>>
    /\ UNCHANGED faults
    /\ hint' = 0
    /\ pc = "select"
    /\ document' = IF caller = "poll" /\ hint \in DocIds /\ docs[hint].status # "absent"
                   THEN hint ELSE get_next_queued_document(docs)
    /\ last_selection' = IF document' = 0 THEN "none" ELSE "found"
    /\ IF document' = 0
       THEN /\ Return(FALSE)
            /\ is_processing' = FALSE
            /\ current_job' = NoJob
       ELSE /\ pc' = "claim"
            /\ UNCHANGED <<result, is_processing, current_job>>
    /\ UNCHANGED <<caller, raised>>
    /\ UNCHANGED <<envVars, jobFrame>>

\* document = crud.get_next_queued_document(db); if not document: return False
\* (the finally block runs on that return). The call has no argument: the
\* payload of the notification is not looked at.
ProcSelect ==
    /\ UNCHANGED <<other, degraded, crash>>
    /\ hint' = 0
    /\ UNCHANGED <<job_rows, registry, callers, processor, tolerated>>
    /\ UNCHANGED faults
    /\ pc = "select"
    /\ document' = get_next_queued_document(docs)
    /\ last_selection' = IF get_next_queued_document(docs) = 0 THEN "none" ELSE "found"
    /\ IF get_next_queued_document(docs) = 0
       THEN /\ Return(FALSE)
            /\ is_processing' = FALSE
            /\ current_job' = NoJob
       ELSE /\ pc' = "claim"
            /\ UNCHANGED <<result, is_processing, current_job>>
    /\ UNCHANGED <<caller, raised>>
    /\ UNCHANGED <<envVars, jobFrame>>

\* self.is_processing = True, the first statement after a document was
\* found; self.current_job is assigned after the ProcessingJob is built.
ProcBegin ==
    /\ UNCHANGED <<other, last_selection, degraded, hint, crash>>
    /\ UNCHANGED <<job_rows, registry, callers, processor, tolerated>>
    /\ UNCHANGED faults
    /\ pc = "claim"
    /\ ~is_processing
    /\ is_processing' = TRUE
    /\ UNCHANGED <<pc, caller, raised, document, current_job, result>>
    /\ UNCHANGED <<envVars, jobFrame>>

\* A claim that starts the pipeline without writing the processing status.
ProcClaimUncommitted ==
    /\ UNCHANGED <<other, last_selection, degraded, hint, crash>>
    /\ UNCHANGED <<job_rows, registry, callers>>
    /\ processor' = NoProcessor
    /\ tolerated' = {}
    /\ UNCHANGED faults
    /\ pc = "claim"
    /\ is_processing
    /\ UNCHANGED is_processing
    /\ current_job' = [job_id |-> nextJob, doc_id |-> document]
    /\ nextJob' = nextJob + 1
    /\ jobs' = [jobs EXCEPT ![nextJob] =
                   [doc_id |-> document, status |-> "not_started", progress |-> 0]]
    /\ observed' = <<>>
    /\ stages' = <<>>
    /\ embedCalls' = 0
    /\ indexWrites' = 0
    /\ cleanup' = "none"
    /\ meta_before' = docs[document].meta
    /\ files_before' = (IF document \in mdFiles THEN {"md"} ELSE {})
                          \cup (IF document \in jsonFiles THEN {"json"} ELSE {})
    /\ final_metadata' = EmptyDict
    /\ markdown_content' = ""
    /\ chunks' = 0
    /\ chunks_added_count' = 0
    /\ error_msg' = None
    /\ success' = FALSE
    /\ \/ /\ docs' = docs
          /\ pc' = "start"
       \/ /\ docs' = docs
          /\ pc' = "proc_except"
    /\ UNCHANGED <<nextDoc, resets, mdFiles, jsonFiles, indexed, channel, notifies,
                   listening, shutdown_event>>
    /\ UNCHANGED <<caller, raised, document, result>>

\* job = ProcessingJob(...); self.current_job = job;
\* crud.update_document_status(db, id, user, "processing", 0); db.commit()
ProcClaim ==
    /\ UNCHANGED <<other, last_selection, degraded, hint, crash>>
    /\ UNCHANGED <<job_rows, registry, callers>>
    /\ processor' = NoProcessor
    /\ tolerated' = {}
    /\ UNCHANGED faults
    /\ pc = "claim"
    /\ is_processing
    /\ UNCHANGED is_processing
    /\ current_job' = [job_id |-> nextJob, doc_id |-> document]
    /\ nextJob' = nextJob + 1
    /\ jobs' = [jobs EXCEPT ![nextJob] =
                   [doc_id |-> document, status |-> "not_started", progress |-> 0]]
    /\ observed' = <<>>
    /\ stages' = <<>>
    /\ embedCalls' = 0
    /\ indexWrites' = 0
    /\ cleanup' = "none"
    /\ meta_before' = docs[document].meta
    /\ files_before' = (IF document \in mdFiles THEN {"md"} ELSE {})
                          \cup (IF document \in jsonFiles THEN {"json"} ELSE {})
    /\ final_metadata' = EmptyDict
    /\ markdown_content' = ""
    /\ chunks' = 0
    /\ chunks_added_count' = 0
    /\ error_msg' = None
    /\ success' = FALSE
    /\ \/ /\ docs' = update_document_status(docs, document, "processing", 0)
          /\ pc' = "start"
       \/ /\ docs' = docs
          /\ pc' = "proc_except"
    /\ UNCHANGED <<nextDoc, resets, mdFiles, jsonFiles, indexed, channel, notifies,
                   listening, shutdown_event>>
    /\ UNCHANGED <<caller, raised, document, result>>

\* final_status = "completed" if success else "failed"
FinalStatus(ok) == IF ok THEN "completed" ELSE "failed"

\* crud.update_document_status(db, document.id, document.user_id, final_status, 100)
ProcFinal ==
    /\ UNCHANGED <<other, last_selection, degraded, hint, crash>>
    /\ UNCHANGED <<job_rows, registry, callers, processor, tolerated>>
    /\ UNCHANGED faults
    /\ pc = "final"
    /\ \/ /\ docs' = update_document_status(docs, document, FinalStatus(success), 100)
          /\ pc' = IF success THEN "finally" ELSE "cleanup"
       \/ /\ docs' = docs
          /\ pc' = "proc_except"
    /\ UNCHANGED <<nextDoc, resets, mdFiles, jsonFiles, indexed, channel, notifies,
                   listening, shutdown_event>>
    /\ UNCHANGED <<caller, raised, document, current_job, is_processing, result>>
    /\ UNCHANGED jobFrame

\* cleanup_failed_document_improved(db, doc_id, user_id) when it succeeds:
\* the normalized-text and metadata files and the index entries of the
\* document are removed; the document row is left as it is.
CleanedFiles(fs, d) == fs \ {d}

CleanedIndex(ix, d) == [ix EXCEPT ![d] = 0]

\* A cleanup whose exception is not caught where it is called.
ProcCleanupUncaught ==
    /\ UNCHANGED <<other, last_selection, degraded, hint, crash>>
    /\ UNCHANGED <<job_rows, registry, callers, processor, tolerated>>
    /\ UNCHANGED faults
    /\ pc = "cleanup"
    /\ \/ /\ cleanup' = "ok"
          /\ mdFiles' = CleanedFiles(mdFiles, document)
          /\ jsonFiles' = CleanedFiles(jsonFiles, document)
          /\ indexed' = CleanedIndex(indexed, document)
          /\ pc' = "finally"
       \/ /\ cleanup' = "issues"
          /\ UNCHANGED <<mdFiles, jsonFiles, indexed>>
          /\ pc' = "finally"
       \/ /\ cleanup' = "raised"
          /\ UNCHANGED <<mdFiles, jsonFiles, indexed>>
          /\ pc' = "proc_except"
    /\ UNCHANGED <<docs, nextDoc, resets, channel, notifies, listening, shutdown_event>>
    /\ UNCHANGED <<caller, raised, document, current_job, is_processing, result>>
    /\ UNCHANGED <<pipeVars, nextJob, jobs, observed, stages, embedCalls, indexWrites,
                   meta_before, files_before>>

\* if not success: cleanup (True, False, or an exception that is caught)
ProcCleanup ==
    /\ UNCHANGED <<other, last_selection, degraded, hint, crash>>
    /\ UNCHANGED <<job_rows, registry, callers, processor, tolerated>>
    /\ UNCHANGED faults
    /\ pc = "cleanup"
    /\ \/ /\ cleanup' = "ok"
          /\ mdFiles' = CleanedFiles(mdFiles, document)
          /\ jsonFiles' = CleanedFiles(jsonFiles, document)
          /\ indexed' = CleanedIndex(indexed, document)
       \/ /\ cleanup' \in {"issues", "raised"}
          /\ UNCHANGED <<mdFiles, jsonFiles, indexed>>
    /\ pc' = "finally"
    /\ UNCHANGED <<docs, nextDoc, resets, channel, notifies, listening, shutdown_event>>
    /\ UNCHANGED <<caller, raised, document, current_job, is_processing, result>>
    /\ UNCHANGED <<pipeVars, nextJob, jobs, observed, stages, embedCalls, indexWrites,
                   meta_before, files_before>>

\* except Exception as e: print(f"...", exc_info=True): the print raises
\* TypeError, so the failed-status write and the cleanup below it never run.
ProcExcept ==
    /\ UNCHANGED <<other, last_selection, degraded, hint, crash>>
    /\ UNCHANGED <<job_rows, registry, callers, processor, tolerated>>
    /\ UNCHANGED faults
    /\ pc = "proc_except"
    /\ raised' = TRUE
    /\ pc' = "finally"
    /\ UNCHANGED <<caller, document, current_job, is_processing, result>>
    /\ UNCHANGED <<envVars, jobFrame>>

\* finally: self.is_processing = False, the statement before
\* self.current_job = None.
ProcIdle ==
    /\ UNCHANGED <<other, last_selection, degraded, hint, crash>>
    /\ UNCHANGED <<job_rows, registry, callers, processor, tolerated>>
    /\ UNCHANGED faults
    /\ pc = "finally"
    /\ is_processing
    /\ is_processing' = FALSE
    /\ UNCHANGED <<pc, caller, raised, document, current_job, result>>
    /\ UNCHANGED <<envVars, jobFrame>>

\* A finally block that leaves self.current_job as it is.
ProcFinallyKeepsJob ==
    /\ UNCHANGED <<other, last_selection, degraded, hint, crash>>
    /\ UNCHANGED <<job_rows, registry, callers>>
    /\ UNCHANGED faults
    /\ pc = "finally"
    /\ ~is_processing
    /\ UNCHANGED <<is_processing, current_job>>
    /\ IF raised
       THEN /\ pc' = "loop_except"
            /\ UNCHANGED result
       ELSE Return(document # 0)
    /\ document' = 0
    /\ FrameDropped
    /\ UNCHANGED <<caller, raised>>
    /\ UNCHANGED envVars

\* finally: self.current_job = None; db.commit(); db.close(); then
\* `return document is not None`, or the exception goes on to the worker
\* loop.
ProcFinally ==
    /\ UNCHANGED <<other, last_selection, degraded, hint, crash>>
    /\ UNCHANGED <<job_rows, registry, callers>>
    /\ UNCHANGED faults
    /\ pc = "finally"
    /\ ~is_processing
    /\ UNCHANGED is_processing
    /\ current_job' = NoJob
    /\ IF raised
       THEN /\ pc' = "loop_except"
            /\ UNCHANGED result
       ELSE Return(document # 0)
    /\ document' = 0
    /\ FrameDropped
    /\ UNCHANGED <<caller, raised>>
    /\ UNCHANGED envVars

\* --------------------------------------------------- _process_document_sync
Doc == current_job.doc_id
Job == current_job.job_id

\* What metadata_extractor.extract may return ({} is falsy).
ExtractedChoices ==
    {EmptyDict,
     [k \in {"title", "year", "journal"} |->
        CASE k = "title" -> "New title" [] k = "year" -> "2020" [] OTHER -> "J"]}

\* final_metadata = {"doc_id": ..., "original_filename": ...}, updated with
\* the extracted metadata when that is not empty.
FinalMetadata(d, fn, extracted) ==
    IF TruthyDict(extracted)
    THEN DictMerge([doc_id |-> d, original_filename |-> fn], extracted)
    ELSE [doc_id |-> d, original_filename |-> fn]

\* A pipeline without the empty-content test.
IsEmptyContentNever(content) == FALSE

\* if not markdown_content: raise Exception("... produced empty markdown content ...")
IsEmptyContent(content) == ~Truthy(content)

\* raise inside the try block: control goes to the except clause.
Raise(e) ==
    /\ pc' = "failed"
    /\ error_msg' = e

\* The exception of a call that failed.
RaiseFault == Raise("error") /\ Fault

\* A checkpoint: the job-scoped report, the document-scoped write and its
\* push, and the stage entered.
Checkpoint(progress, stage, push) ==
    /\ jobs' = JobProgress(jobs, Job, progress, "running")
    /\ job_rows' = JobRowWrite(job_rows, Job, progress, "running", None)
    /\ docs' = DocProgressWrite(docs, Doc, progress, "processing", None)
    /\ observed' = Pushed(observed, progress, "processing")
    /\ tolerated' = Logged(tolerated, push)
    /\ stages' = IF stage = "" THEN stages ELSE Append(stages, stage)

\* An error of the progress write is an error of the stage.
PushAbort == Raise("push") /\ NoFault

\* self._update_job_progress_sync(job_id, user_id, 0, "running")
\* self._update_document_progress_sync(doc_id, user_id, 0, "processing")
PipeStart ==
    /\ UNCHANGED <<other, last_selection, degraded, hint, crash>>
    /\ UNCHANGED <<registry, callers, processor>>
    /\ pc = "start"
    /\ \E push \in PushNow :
          /\ Checkpoint(0, "", push)
          /\ IF ProgressWriteRaises(push)
             THEN PushAbort
             ELSE pc' = "config" /\ NoFault /\ UNCHANGED error_msg
    /\ UNCHANGED <<nextDoc, resets, mdFiles, jsonFiles, indexed, channel, notifies,
                   listening, shutdown_event>>
    /\ UNCHANGED <<caller, raised, document, current_job, is_processing, result>>
    /\ UNCHANGED <<final_metadata, markdown_content, chunks, chunks_added_count, success>>
    /\ UNCHANGED <<nextJob, embedCalls, indexWrites, cleanup, meta_before, files_before>>

\* A load of the settings whose error is not caught.
SettingsLoadUncaught(u, readable) ==
    [raised |-> ~readable,
     settings |-> IF readable /\ get_user(u) # NoUser /\ TruthyDict(get_user(u).settings)
                  THEN get_user(u).settings ELSE EmptyDict]

\* user = crud.get_user(db, user_id)
\* user_settings = user.settings if user and user.settings else {}
\* except Exception: user_settings = {}
SettingsLoad(u, readable) ==
    [raised |-> FALSE,
     settings |-> IF readable /\ get_user(u) # NoUser /\ TruthyDict(get_user(u).settings)
                  THEN get_user(u).settings ELSE EmptyDict]

\* MetadataExtractor.from_user_settings(user_settings): the extraction
\* policy of a job, configured by the settings it is given.
from_user_settings(settings) == [configured_by |-> settings]

\* A processor that keeps the default extractor of DocumentProcessor.
JobProcessorDefaultExtractor(reg, settings) ==
    [metadata_extractor |-> from_user_settings(EmptyDict),
     embedder |-> reg.embedder, vector_store |-> reg.vector_store]

\* processor = DocumentProcessor(..., embedder=embedder, vector_store=vector_store)
\* processor.metadata_extractor = metadata_extractor
JobProcessor(reg, settings) ==
    [metadata_extractor |-> from_user_settings(settings),
     embedder |-> reg.embedder, vector_store |-> reg.vector_store]

\* Where the construction of the per-job processor may raise.
BuildSites == {"embedder", "vector_store", "extractor"}

\* The registry when _get_processor_with_user_settings raised at a site:
\* what was built before the site stays built.
RegistryAtFailure(reg, site) ==
    CASE site = "embedder" -> reg
      [] site = "vector_store" -> Gotten(reg, "embedder")
      [] OTHER -> Gotten(Gotten(reg, "embedder"), "vector_store")

\* Step 1: only the job-scoped report gets 10; the settings are loaded (an
\* error there degrades to {}) and the per-job processor is built under the
\* lock from the shared embedder and vector store, which may raise.
PipeConfig ==
    /\ UNCHANGED <<other, last_selection, degraded, hint, crash>>
    /\ UNCHANGED callers
    /\ pc = "config"
    /\ LockFree(registry, 0)
    /\ jobs' = JobProgress(jobs, Job, 10, "running")
    /\ job_rows' = JobRowWrite(job_rows, Job, 10, "running", None)
    /\ stages' = Append(stages, "config")
    /\ \E readable \in (IF degraded THEN BOOLEAN ELSE {TRUE}) :
          /\ tolerated' = IF readable THEN tolerated ELSE tolerated \cup {"settings"}
          /\ IF SettingsLoad(docs[Doc].user_id, readable).raised
             THEN /\ RaiseFault
                  /\ UNCHANGED <<registry, processor>>
             ELSE \/ /\ registry' = Gotten(Gotten(registry, "embedder"), "vector_store")
                     /\ processor' =
                           JobProcessor(registry',
                                        SettingsLoad(docs[Doc].user_id, readable).settings)
                     /\ pc' = "materialize"
                     /\ IF readable THEN NoFault ELSE Fault
                     /\ UNCHANGED error_msg
                  \/ /\ readable
                     /\ \E site \in BuildSites :
                           /\ site \in Components => registry[site] = 0
                           /\ registry' = RegistryAtFailure(registry, site)
                     /\ RaiseFault
                     /\ UNCHANGED processor
    /\ UNCHANGED envVars
    /\ UNCHANGED <<caller, raised, document, current_job, is_processing, result>>
    /\ UNCHANGED <<final_metadata, markdown_content, chunks, chunks_added_count, success>>
    /\ UNCHANGED <<nextJob, observed, embedCalls, indexWrites, cleanup, meta_before, files_before>>

\* Step 2: checkpoint 30, then the category of the file name decides the
\* target path; any other name raises; the copy may raise.
PipeMaterialize ==
    /\ UNCHANGED <<other, last_selection, degraded, hint, crash>>
    /\ UNCHANGED <<registry, callers, processor>>
    /\ pc = "materialize"
    /\ \E push \in PushNow :
          /\ Checkpoint(30, "materialize", push)
          /\ IF ProgressWriteRaises(push)
             THEN PushAbort
             ELSE IF FileCategory(docs[Doc].filename) = "unsupported"
             THEN Raise("unsupported") /\ NoFault
             ELSE \/ pc' = "extract" /\ NoFault /\ UNCHANGED error_msg
                  \/ RaiseFault
    /\ UNCHANGED <<nextDoc, resets, mdFiles, jsonFiles, indexed, channel, notifies,
                   listening, shutdown_event>>
    /\ UNCHANGED <<caller, raised, document, current_job, is_processing, result>>
    /\ UNCHANGED <<final_metadata, markdown_content, chunks, chunks_added_count, success>>
    /\ UNCHANGED <<nextJob, embedCalls, indexWrites, cleanup, meta_before, files_before>>

\* Step 3: checkpoint 50, metadata extraction, conversion by category, the
\* empty-content test, then {doc_id}.md and {doc_id}.json are written. The
\* extraction or conversion may raise, and so may the write of the second
\* file.
PipeExtract ==
    /\ UNCHANGED <<other, last_selection, degraded, hint, crash>>
    /\ UNCHANGED <<registry, callers, processor>>
    /\ pc = "extract"
    /\ \E push \in PushNow :
          /\ Checkpoint(50, "extract", push)
          /\ IF ProgressWriteRaises(push)
             THEN /\ PushAbort
                  /\ UNCHANGED <<final_metadata, markdown_content, mdFiles, jsonFiles>>
             ELSE \E extracted \in ExtractedChoices, content \in {"", "text"},
                     fault \in {"", "convert", "json"} :
                     /\ final_metadata' =
                           IF fault = "convert" THEN final_metadata
                           ELSE FinalMetadata(Doc, docs[Doc].filename, extracted)
                     /\ markdown_content' = IF fault = "convert" THEN "" ELSE content
                     /\ IF fault = "convert" THEN
                           /\ RaiseFault
                           /\ UNCHANGED <<mdFiles, jsonFiles>>
                        ELSE IF FileCategory(docs[Doc].filename) = "unsupported" THEN
                           /\ Raise("unsupported")
                           /\ NoFault
                           /\ UNCHANGED <<mdFiles, jsonFiles>>
                        ELSE IF IsEmptyContent(content) THEN
                           /\ Raise("empty")
                           /\ NoFault
                           /\ UNCHANGED <<mdFiles, jsonFiles>>
                        ELSE IF fault = "json" THEN
                           /\ RaiseFault
                           /\ mdFiles' = mdFiles \cup {Doc}
                           /\ UNCHANGED jsonFiles
                        ELSE
                           /\ mdFiles' = mdFiles \cup {Doc}
                           /\ jsonFiles' = jsonFiles \cup {Doc}
                           /\ pc' = "chunk"
                           /\ NoFault
                           /\ UNCHANGED error_msg
    /\ UNCHANGED <<nextDoc, resets, indexed, channel, notifies, listening, shutdown_event>>
    /\ UNCHANGED <<caller, raised, document, current_job, is_processing, result>>
    /\ UNCHANGED <<chunks, chunks_added_count, success>>
    /\ UNCHANGED <<nextJob, embedCalls, indexWrites, cleanup, meta_before, files_before>>

\* A chunk stage that is run again after it raised.
PipeChunkRetried ==
    /\ UNCHANGED <<other, last_selection, degraded, hint, crash>>
    /\ UNCHANGED <<registry, callers, processor>>
    /\ pc = "chunk"
    /\ \E push \in PushNow :
          /\ Checkpoint(70, "chunk", push)
          /\ IF ProgressWriteRaises(push)
             THEN PushAbort /\ UNCHANGED chunks
             ELSE \/ /\ chunks' \in 0..MaxChunks
                     /\ pc' = "index"
                     /\ NoFault
                     /\ UNCHANGED error_msg
                  \/ /\ Fault
                     /\ error_msg' = "error"
                     /\ pc' = "chunk"
                     /\ UNCHANGED chunks
    /\ UNCHANGED <<nextDoc, resets, mdFiles, jsonFiles, indexed, channel, notifies,
                   listening, shutdown_event>>
    /\ UNCHANGED <<caller, raised, document, current_job, is_processing, result>>
    /\ UNCHANGED <<final_metadata, markdown_content, chunks_added_count, success>>
    /\ UNCHANGED <<nextJob, embedCalls, indexWrites, cleanup, meta_before, files_before>>

\* Step 4: checkpoint 70, chunks = processor.chunker.chunk(...)
PipeChunk ==
    /\ UNCHANGED <<other, last_selection, degraded, hint, crash>>
    /\ UNCHANGED <<registry, callers, processor>>
    /\ pc = "chunk"
    /\ \E push \in PushNow :
          /\ Checkpoint(70, "chunk", push)
          /\ IF ProgressWriteRaises(push)
             THEN PushAbort /\ UNCHANGED chunks
             ELSE \/ /\ chunks' \in 0..MaxChunks
                     /\ pc' = "index"
                     /\ NoFault
                     /\ UNCHANGED error_msg
                  \/ /\ RaiseFault
                     /\ UNCHANGED chunks
    /\ UNCHANGED <<nextDoc, resets, mdFiles, jsonFiles, indexed, channel, notifies,
                   listening, shutdown_event>>
    /\ UNCHANGED <<caller, raised, document, current_job, is_processing, result>>
    /\ UNCHANGED <<final_metadata, markdown_content, chunks_added_count, success>>
    /\ UNCHANGED <<nextJob, embedCalls, indexWrites, cleanup, meta_before, files_before>>

\* A count that is off by one from the chunks handed to add_chunks.
ChunksAddedCountPlusOne(n) == IF n > 0 THEN n + 1 ELSE 0

\* chunks_added_count = len(chunks) after add_chunks returned.
ChunksAddedCount(n) == IF n > 0 THEN n ELSE 0

\* An embed-and-index stage that runs whatever the chunker produced.
ShouldEmbedAlways(proc, n) == TRUE

\* if processor.embedder and processor.vector_store and chunks:
ShouldEmbed(proc, n) == proc.embedder # 0 /\ proc.vector_store # 0 /\ n > 0

\* Step 5: checkpoint 90; with chunks, embed_chunks then add_chunks (either
\* may raise, add_chunks after some of its batches were written).
PipeIndex ==
    /\ UNCHANGED <<other, last_selection, degraded, hint, crash>>
    /\ UNCHANGED <<registry, callers, processor>>
    /\ pc = "index"
    /\ \E push \in PushNow :
          /\ Checkpoint(90, "index", push)
          /\ IF ProgressWriteRaises(push)
             THEN /\ PushAbort
                  /\ UNCHANGED <<embedCalls, indexed, indexWrites, chunks_added_count>>
             ELSE IF ShouldEmbed(processor, chunks)
             THEN /\ embedCalls' = embedCalls + 1
                  /\ \/ /\ indexed' = [indexed EXCEPT ![Doc] = @ + chunks]
                        /\ indexWrites' = indexWrites + chunks
                        /\ chunks_added_count' = ChunksAddedCount(chunks)
                        /\ pc' = "complete"
                        /\ NoFault
                        /\ UNCHANGED error_msg
                     \/ \E k \in 0..(chunks - 1) :
                           /\ indexed' = [indexed EXCEPT ![Doc] = @ + k]
                           /\ indexWrites' = indexWrites + k
                           /\ RaiseFault
                           /\ UNCHANGED chunks_added_count
             ELSE /\ chunks_added_count' = 0
                  /\ pc' = "complete"
                  /\ NoFault
                  /\ UNCHANGED <<embedCalls, indexed, indexWrites, error_msg>>
    /\ UNCHANGED <<nextDoc, resets, mdFiles, jsonFiles, channel, notifies,
                   listening, shutdown_event>>
    /\ UNCHANGED <<caller, raised, document, current_job, is_processing, result>>
    /\ UNCHANGED <<final_metadata, markdown_content, chunks, success>>
    /\ UNCHANGED <<nextJob, cleanup, meta_before, files_before>>

\* Step 6: self._update_job_progress_sync(job_id, user_id, 100, "completed")
\* self._update_document_progress_sync(doc_id, user_id, 100, "completed")
PipeComplete ==
    /\ UNCHANGED <<other, last_selection, degraded, hint, crash>>
    /\ UNCHANGED <<registry, callers, processor>>
    /\ pc = "complete"
    /\ jobs' = JobProgress(jobs, Job, 100, "completed")
    /\ job_rows' = JobRowWrite(job_rows, Job, 100, "completed", None)
    /\ docs' = DocProgressWrite(docs, Doc, 100, "completed", None)
    /\ observed' = Pushed(observed, 100, "completed")
    /\ stages' = Append(stages, "finalize")
    /\ \E push \in PushNow :
          /\ tolerated' = Logged(tolerated, push)
          /\ IF ProgressWriteRaises(push)
             THEN PushAbort
             ELSE pc' = "chunk_count" /\ NoFault /\ UNCHANGED error_msg
    /\ UNCHANGED <<nextDoc, resets, mdFiles, jsonFiles, indexed, channel, notifies,
                   listening, shutdown_event>>
    /\ UNCHANGED <<caller, raised, document, current_job, is_processing, result>>
    /\ UNCHANGED <<final_metadata, markdown_content, chunks, chunks_added_count, success>>
    /\ UNCHANGED <<nextJob, embedCalls, indexWrites, cleanup, meta_before, files_before>>

\* crud.update_document_status(db_temp, doc_id, user_id, "completed", 100,
\*                             chunk_count=chunks_added_count); it may raise.
PipeChunkCount ==
    /\ UNCHANGED <<other, last_selection, degraded, hint, crash>>
    /\ UNCHANGED <<job_rows, registry, callers, processor, tolerated>>
    /\ pc = "chunk_count"
    /\ \/ /\ docs' = update_document_status_chunks(docs, Doc, "completed", 100,
                                                    chunks_added_count)
          /\ pc' = "metadata"
          /\ NoFault
          /\ UNCHANGED error_msg
       \/ /\ RaiseFault
          /\ UNCHANGED docs
    /\ UNCHANGED <<nextDoc, resets, mdFiles, jsonFiles, indexed, channel, notifies,
                   listening, shutdown_event>>
    /\ UNCHANGED <<caller, raised, document, current_job, is_processing, result>>
    /\ UNCHANGED <<final_metadata, markdown_content, chunks, chunks_added_count, success>>
    /\ UNCHANGED histVars

\* formatted_metadata = {...}: every finalized key is set, to None when the
\* run extracted nothing for it.
FormattedMetadata(extracted, job_id, generated, added) ==
    [k \in {"title", "authors", "publication_year", "journal_or_source", "abstract",
            "doi", "keywords", "processed_at", "processing_job_id", "status",
            "chunks_generated", "chunks_added_to_vector_store"} |->
        CASE k = "publication_year" ->
                Or(Get(extracted, "publication_year"), Get(extracted, "year"))
          [] k = "journal_or_source" ->
                Or(Get(extracted, "journal_or_source"), Get(extracted, "journal"))
          [] k = "processed_at" -> "utcnow"
          [] k = "processing_job_id" -> job_id
          [] k = "status" -> "completed"
          [] k = "chunks_generated" -> generated
          [] k = "chunks_added_to_vector_store" -> added
          [] OTHER -> Get(extracted, k)]

\* A finalization that stores the new metadata alone.
MergedMetadataNewOnly(existing, formatted) == formatted

\* merged_metadata = {**existing_metadata, **formatted_metadata}
MergedMetadata(existing, formatted) == DictMerge(existing, formatted)

\* The metadata block: the row is read, merged metadata and chunk_count are
\* set and committed; an exception in the block is caught and only logged.
\* Then `return True`.
PipeMetadata ==
    /\ UNCHANGED <<other, last_selection, degraded, hint, crash>>
    /\ UNCHANGED <<job_rows, registry, callers, processor, tolerated>>
    /\ pc = "metadata"
    /\ \/ /\ docs' =
               IF docs[Doc].status # "absent"
               THEN [docs EXCEPT
                       ![Doc].meta = MergedMetadata(docs[Doc].meta,
                                        FormattedMetadata(final_metadata, Job, chunks,
                                                          chunks_added_count)),
                       ![Doc].chunk_count = chunks_added_count]
               ELSE docs
          /\ NoFault
       \/ /\ docs' = docs
          /\ Fault
    /\ success' = TRUE
    /\ pc' = "final"
    /\ UNCHANGED <<nextDoc, resets, mdFiles, jsonFiles, indexed, channel, notifies,
                   listening, shutdown_event>>
    /\ UNCHANGED <<caller, raised, document, current_job, is_processing, result>>
    /\ UNCHANGED <<final_metadata, markdown_content, chunks, chunks_added_count, error_msg>>
    /\ UNCHANGED histVars

\* A failure handler that records the failure on the document only.
PipeFailDocOnly ==
    /\ UNCHANGED <<other, last_selection, degraded, hint, crash>>
    /\ UNCHANGED <<job_rows, registry, callers, processor>>
    /\ UNCHANGED faults
    /\ pc = "failed"
    /\ docs' = DocProgressWrite(docs, Doc, 0, "failed", ErrorText(error_msg))
    /\ observed' = Pushed(observed, 0, "failed")
    /\ success' = FALSE
    /\ \E push \in PushNow :
          /\ tolerated' = Logged(tolerated, push)
          /\ pc' = IF ProgressWriteRaises(push) THEN "proc_except" ELSE "final"
    /\ UNCHANGED <<nextDoc, resets, mdFiles, jsonFiles, indexed, channel, notifies,
                   listening, shutdown_event>>
    /\ UNCHANGED <<caller, raised, document, current_job, is_processing, result>>
    /\ UNCHANGED <<final_metadata, markdown_content, chunks, chunks_added_count, error_msg>>
    /\ UNCHANGED <<nextJob, jobs, stages, embedCalls, indexWrites, cleanup, meta_before, files_before>>

\* except Exception as e: both views are written failed with progress 0 and
\* the error text, then `return False`; an error of the progress write
\* would leave _process_document_sync.
PipeFail ==
    /\ UNCHANGED <<other, last_selection, degraded, hint, crash>>
    /\ UNCHANGED <<registry, callers, processor>>
    /\ UNCHANGED faults
    /\ pc = "failed"
    /\ jobs' = JobProgress(jobs, Job, 0, "failed")
    /\ job_rows' = JobRowWrite(job_rows, Job, 0, "failed", ErrorText(error_msg))
    /\ docs' = DocProgressWrite(docs, Doc, 0, "failed", ErrorText(error_msg))
    /\ observed' = Pushed(observed, 0, "failed")
    /\ success' = FALSE
    /\ \E push \in PushNow :
          /\ tolerated' = Logged(tolerated, push)
          /\ pc' = IF ProgressWriteRaises(push) THEN "proc_except" ELSE "final"
    /\ UNCHANGED <<nextDoc, resets, mdFiles, jsonFiles, indexed, channel, notifies,
                   listening, shutdown_event>>
    /\ UNCHANGED <<caller, raised, document, current_job, is_processing, result>>
    /\ UNCHANGED <<final_metadata, markdown_content, chunks, chunks_added_count, error_msg>>
    /\ UNCHANGED <<nextJob, stages, embedCalls, indexWrites, cleanup, meta_before, files_before>>

\* ------------------------------------------------------- kill and restart
\* A startup that also puts the documents found in processing back into the
\* queue.
StartupRequeued(ds) ==
    [d \in DocIds |-> IF ds[d].status = "cli_processing" THEN AbsentRow
                      ELSE IF ds[d].status = "processing"
                      THEN [ds[d] EXCEPT !.status = "queued"]
                      ELSE ds[d]]

\* startup_event of main.py removes the rows the command-line tool left in
\* cli_processing; rows in any other status are not looked at.
StartupCleaned(ds) ==
    [d \in DocIds |-> IF ds[d].status = "cli_processing" THEN AbsentRow ELSE ds[d]]

\* The process is killed at any point and started again. Every storage
\* write of the worker is made and committed inside one step (a kill inside
\* the call leaves storage as it was before the step), so the tables, the
\* artifact files and the index are what they are now. The new process has
\* a new service object: no job, no components, no LISTEN connection, the
\* shutdown flag clear. Startup cleans the cli_processing rows, unless that
\* clean-up fails, and starts the worker thread.
Crash ==
    /\ crash.count < MaxCrashes
    /\ crash' = [count |-> crash.count + 1,
                 stuck |-> crash.stuck \cup {d \in DocIds : docs[d].status = "processing"}]
    /\ docs' \in {StartupCleaned(docs), docs}
    /\ listening' = FALSE
    /\ channel' = 0
    /\ notifies' = 0
    /\ shutdown_event' = FALSE
    /\ pc' = "outer"
    /\ caller' = "drain"
    /\ raised' = FALSE
    /\ document' = 0
    /\ current_job' = NoJob
    /\ is_processing' = FALSE
    /\ result' = FALSE
    /\ FrameDropped
    /\ registry' = RegistryInit
    /\ last_selection' = "unset"
    /\ hint' = 0
    /\ UNCHANGED <<nextDoc, resets, mdFiles, jsonFiles, indexed>>
    /\ UNCHANGED <<faults, other, job_rows, callers, degraded>>

\* ---------------------------------------------------------- second instance
\* The service is started twice: main.py runs background_processor.start in
\* a thread of the API process, and running the module as a script starts it
\* again in a process of its own. The second instance executes the same
\* _process_next_document on the same documents table. Its read (line 114)
\* and its write of "processing" with the commit (lines 130-131) are taken
\* here in the one window that matters for the claim: after this worker's
\* own read and before its own write. The pipeline the second instance then
\* runs on its document is left out: the document stays claimed by it.
OtherClaim ==
    /\ pc = "claim"
    /\ other = {}
    /\ get_next_queued_document(docs) # 0
    /\ docs' = update_document_status(docs, get_next_queued_document(docs), "processing", 0)
    /\ other' = {get_next_queued_document(docs)}
    /\ UNCHANGED <<nextDoc, resets, mdFiles, jsonFiles, indexed, channel, notifies,
                   listening, shutdown_event>>
    /\ UNCHANGED <<loopVars, pipeVars, histVars, faults, last_selection, degraded>>
    /\ UNCHANGED <<job_rows, registry, callers, processor, tolerated, hint, crash>>

\* ------------------------------------------------------------ specification
Worker ==
    \/ LoopOuter \/ LoopListen \/ LoopInner \/ LoopDrain \/ LoopWait \/ LoopPoll
    \/ LoopExcept
    \/ ProcSelect \/ ProcBegin \/ ProcClaim \/ ProcFinal \/ ProcCleanup \/ ProcExcept
    \/ ProcIdle \/ ProcFinally
    \/ PipeStart \/ PipeConfig \/ PipeMaterialize \/ PipeExtract \/ PipeChunk
    \/ PipeIndex \/ PipeComplete \/ PipeChunkCount \/ PipeMetadata \/ PipeFail

Next == Enqueue \/ ExternalReset \/ Shutdown \/ Worker

Spec == Init /\ [][Next]_vars

\* The worker thread keeps running while it has a step to take.
FairSpec == Spec /\ WF_vars(Worker)

\* Threads calling the accessors of the shared resources concurrently.
AccessorNext ==
    \/ CallerCalls \/ CallerEnters \/ CallerTests \/ CallerCallsNested \/ CallerBuilds
    \/ CallerReturns

AccessorSpec == Init /\ [][AccessorNext]_vars

\* The steps of thread t inside a call that wait for nothing.
CallerRuns(t) == (AccTest(t) \/ AccNested(t) \/ AccBuild(t) \/ AccExit(t)) /\ AccFrame

\* Thread t takes the lock.
CallerAcquires(t) == AccEnter(t) /\ AccFrame

\* Every thread inside a call keeps running, and a thread blocked in the
\* acquire of the lock gets it when the lock is released again and again.
\* No thread has to call an accessor.
AccessorFairSpec ==
    AccessorSpec /\ \A t \in Threads : WF_vars(CallerRuns(t)) /\ SF_vars(CallerAcquires(t))

\* The system while pushes and the load of the settings may fail.
DegradedSpec == DegradedInit /\ [][Next]_vars

\* The system with a process that may be killed and is then started again.
CrashNext == Next \/ Crash

CrashSpec == Init /\ [][CrashNext]_vars

\* The system with the second instance running beside this worker.
TwoInstanceNext == Next \/ OtherClaim

TwoInstanceSpec == Init /\ [][TwoInstanceNext]_vars

\* ------------------------------------------------------------------ claims
Finished(d) == docs[d].status \in {"completed", "failed"}

RunningJobs == {j \in JobIds : jobs[j].status = "running"}

ProcessingDocs == {d \in DocIds : docs[d].status = "processing"}

\* C1: at every instant at most one job is Running, and at most one
\* document is claimed and not yet brought to completed or failed.
C1_AtMostOneRunning ==
    /\ Cardinality(RunningJobs) <= 1
    /\ Cardinality(ProcessingDocs) <= 1

\* C1 witness: a second job is Running after an earlier job has ended.
C1_Witness ==
    \E j1, j2 \in JobIds :
        /\ jobs[j1].status \in {"completed", "failed"}
        /\ jobs[j2].status = "running"
        /\ jobs[j1].doc_id # jobs[j2].doc_id

\* C2 (as claimed): every document that is pending or queued eventually
\* reaches completed or failed, unless shutdown is requested.
C2_EveryDocumentFinishes ==
    \A d \in DocIds :
        Eligible(docs[d]) ~> (Finished(d) \/ shutdown_event)


\* The progress values written and pushed for the current run's document.
ObservedProgress == [i \in 1..Len(observed) |-> observed[i][1]]

InRun == current_job # NoJob

\* The worker is done with the pipeline of the current run: the final status
\* write, cleanup and the finally block are what remains.
JobEnded == InRun /\ pc = "finally" /\ ~raised

StagesRun == {stages[i] : i \in 1..Len(stages)}

\* The current run's document was re-queued by the external action after the
\* run had written its outcome.
Requeued == docs[Doc].status = "pending" /\ resets > 0

\* C3 (as claimed): on the success path the progress values written and
\* pushed for the document are exactly 0, 10, 30, 50, 70, 90, 100, the last
\* with status completed.
C3_ProgressCheckpoints ==
    (InRun /\ observed # <<>> /\ observed[Len(observed)][2] = "completed")
        => ObservedProgress = <<0, 10, 30, 50, 70, 90, 100>>

\* C4 (as claimed): when the job failed, the document is failed with
\* progress 0 once the worker has finished with it.
C4_FailedProgressZero ==
    (JobEnded /\ ~success /\ ~Requeued)
        => (docs[Doc].status = "failed" /\ docs[Doc].progress = 0)

\* C5: for a file name whose extension is outside {pdf, doc, docx, md,
\* markdown} the run fails at materialization with the unsupported-format
\* error, no later stage runs, and no embed call or index write is made.
C5_UnsupportedStopsAtMaterialize ==
    (InRun /\ FileExtension(docs[Doc].filename) \notin SupportedExtensions)
        => /\ StagesRun \subseteq {"config", "materialize"}
           /\ pc \notin {"extract", "chunk", "index", "complete", "chunk_count", "metadata"}
           /\ embedCalls = 0
           /\ indexWrites = 0
           /\ ~success
           /\ ("materialize" \in StagesRun => error_msg = "unsupported")
           /\ (JobEnded => /\ jobs[Job].status = "failed"
                           /\ docs[Doc].status = "failed" \/ Requeued
                           /\ "materialize" \in StagesRun
                                 => docs[Doc].error = ErrorText("unsupported"))

\* C5 witness: a run for an unsupported name has ended, failed at
\* materialization.
C5_Witness ==
    /\ JobEnded
    /\ FileExtension(docs[Doc].filename) \notin SupportedExtensions
    /\ stages = <<"config", "materialize">>
    /\ docs[Doc].status = "failed"

\* The conversion of the current run returned empty text.
ConvertedEmpty ==
    /\ InRun
    /\ "extract" \in StagesRun
    /\ markdown_content = ""
    /\ error_msg # "error"

\* C6 (as claimed): after an empty conversion the job fails with the
\* empty-content error, the document is failed, neither artifact exists
\* after the job ends, and nothing is chunked, embedded or indexed.
C6_EmptyContentNoArtifacts ==
    (ConvertedEmpty /\ JobEnded)
        => /\ error_msg = "empty"
           /\ docs[Doc].status = "failed" \/ Requeued
           /\ Doc \notin mdFiles
           /\ Doc \notin jsonFiles
           /\ StagesRun \cap {"chunk", "index", "finalize"} = {}
           /\ embedCalls = 0 /\ indexWrites = 0

\* C6 (amended): after an empty conversion the job fails with the
\* empty-content error, which differs from the unsupported-format error, the
\* document is failed, nothing is chunked, embedded or indexed, and the run
\* creates neither artifact: one that exists afterwards was left by an
\* earlier run of the document, and none exists once cleanup has succeeded.
C6_EmptyContentFails ==
    ConvertedEmpty
        => /\ error_msg = "empty"
           /\ ErrorText("empty") # ErrorText("unsupported")
           /\ pc \in {"failed", "final", "cleanup", "proc_except", "finally"}
           /\ StagesRun = {"config", "materialize", "extract"}
           /\ embedCalls = 0 /\ indexWrites = 0
           /\ (Doc \in mdFiles => "md" \in files_before)
           /\ (Doc \in jsonFiles => "json" \in files_before)
           /\ (pc # "failed" => /\ jobs[Job].status = "failed"
                                /\ docs[Doc].status = "failed" \/ Requeued
                                /\ docs[Doc].error = ErrorText("empty"))
           /\ (cleanup = "ok" => Doc \notin mdFiles \cup jsonFiles)

\* C6 witness: a run whose conversion was empty has ended failed, with no
\* artifact of its document.
C6_Witness ==
    /\ ConvertedEmpty
    /\ JobEnded
    /\ docs[Doc].status = "failed"
    /\ docs[Doc].error = ErrorText("empty")
    /\ Doc \notin mdFiles \cup jsonFiles

\* C7: for a run that reaches Completed, the document's chunk count is the
\* number of chunks the run wrote to the index, and is positive when the
\* chunker produced a chunk.
C7_ChunkCountIsIndexed ==
    (InRun /\ success)
        => /\ docs[Doc].chunk_count = indexWrites
           /\ (chunks > 0 => docs[Doc].chunk_count > 0)

\* C7 witness: a completed run that indexed at least one chunk.
C7_Witness ==
    /\ JobEnded
    /\ success
    /\ chunks > 0
    /\ docs[Doc].status = "completed"
    /\ docs[Doc].chunk_count = chunks

\* C8 (as claimed): when a job failed after the stage-3 artifacts were
\* written, cleanup has run for the document once the worker is done with it
\* (removing both files when it succeeds) and the document is still failed
\* with its error text.
C8_CleanupAfterFailure ==
    (InRun /\ pc = "finally" /\ ~success /\ "chunk" \in StagesRun)
        => /\ cleanup # "none"
           /\ (cleanup = "ok" => Doc \notin mdFiles \cup jsonFiles)
           /\ docs[Doc].status = "failed" \/ Requeued
           /\ docs[Doc].error = ErrorText(error_msg)

\* The keys a run writes at finalization, and the extracted fields among them.
FinalizedFields ==
    {"title", "authors", "publication_year", "journal_or_source", "abstract", "doi",
     "keywords"}

FinalizedKeys ==
    FinalizedFields \cup {"processed_at", "processing_job_id", "status", "chunks_generated",
                          "chunks_added_to_vector_store"}

\* C9: a metadata key that is not a finalized key keeps its value through a
\* run, up to and after its successful completion.
C9_OtherKeysPreserved ==
    InRun => \A k \in (DOMAIN meta_before) \ FinalizedKeys :
                /\ k \in DOMAIN docs[Doc].meta
                /\ docs[Doc].meta[k] = meta_before[k]

\* C9 witness: a re-processed document that carried file_hash has completed
\* and its metadata holds the record of the second run.
C9_Witness ==
    /\ JobEnded
    /\ success
    /\ Job > 1
    /\ jobs[1].doc_id = Doc
    /\ "file_hash" \in DOMAIN meta_before
    /\ "processing_job_id" \in DOMAIN docs[Doc].meta
    /\ docs[Doc].meta["processing_job_id"] = Job

\* C10 (as claimed): a finalized field for which the run produced no value
\* keeps the value stored before the run.
C10_AbsentFieldsPreserved ==
    (JobEnded /\ success)
        => \A k \in FinalizedFields \cap DOMAIN meta_before :
              FormattedMetadata(final_metadata, Job, chunks, chunks_added_count)[k] = None
                  => docs[Doc].meta[k] = meta_before[k]

\* Positions inside _process_document_sync.
PipelinePcs ==
    {"start", "config", "materialize", "extract", "chunk", "index", "complete",
     "chunk_count", "metadata", "failed"}

\* C11: the document's transition to processing is committed before the
\* pipeline's first stage or progress write: when the pipeline is entered
\* the document is processing with nothing yet written by the pipeline, it
\* stays processing until the pipeline writes an outcome, and it is never
\* pending or queued while the pipeline runs.
C11_ClaimCommittedFirst ==
    /\ (InRun /\ pc = "start")
          => /\ docs[Doc].status = "processing"
             /\ docs[Doc].progress = 0
             /\ observed = <<>>
             /\ stages = <<>>
             /\ jobs[Job].status = "not_started"
    /\ (InRun /\ pc \in {"start", "config", "materialize", "extract", "chunk", "index"})
          => docs[Doc].status = "processing"
    /\ (InRun /\ pc \in PipelinePcs) => docs[Doc].status \notin {"pending", "queued"}

\* C11 witness: the pipeline of a claimed document is past its first stages
\* and the document is processing.
C11_Witness ==
    /\ InRun
    /\ pc = "extract"
    /\ stages = <<"config", "materialize">>
    /\ docs[Doc].status = "processing"

\* C12 (as claimed): no document is claimed by two jobs: while the job of
\* this worker runs, its document is not one that another selector has
\* claimed.
C12_NoDoubleClaim ==
    (InRun /\ pc \in PipelinePcs) => Doc \notin other

\* C13: the document the worker has selected and is about to claim is
\* pending or queued; a job is created only for a document that is pending
\* or queued at that moment, so a document that is processing, completed,
\* failed or cli_processing never has a job started for it.
C13_OnlyEligibleClaimed ==
    /\ pc = "claim" => /\ document \in DocIds
                       /\ docs[document].status \in {"pending", "queued"}
    /\ pc # "claim" /\ document # 0 => InRun /\ Doc = document
    /\ \A d \in DocIds :
          docs[d].status = "cli_processing" => \A j \in JobIds : jobs[j].doc_id # d

\* C13 witness: the worker has selected the second document while the first,
\* older one is not eligible.
C13_Witness ==
    /\ pc = "claim"
    /\ document = 2
    /\ docs[1].status \in {"completed", "failed", "cli_processing"}

\* C14: whenever the worker is at the bounded wait, it has made a selection
\* since its last wake and the latest one found no eligible document; no
\* job is in progress there.
C14_DrainBeforeWait ==
    pc = "wait" => /\ last_selection = "none"
                   /\ current_job = NoJob
                   /\ ~is_processing
                   /\ RunningJobs = {}

\* C14 witness: the worker is at the wait after it completed a job and a
\* further selection found nothing.
C14_Witness ==
    /\ pc = "wait"
    /\ last_selection = "none"
    /\ \E j \in JobIds : jobs[j].status \in {"completed", "failed"}
    /\ \E d \in DocIds : docs[d].status = "completed"

\* The jobs this worker has created for a document.
JobsFor(d) == {j \in JobIds : jobs[j].doc_id = d}

\* No document has more jobs than the times it was made eligible (its
\* insert, plus the external re-queues).
AtMostOneJobPerSubmission ==
    \A d \in DocIds : Cardinality(JobsFor(d)) <= 1 + resets

\* A document is pending or queued while the worker is inside the pipeline
\* of another document: it was enqueued mid-drain.
EnqueuedMidDrain(d) ==
    /\ Eligible(docs[d])
    /\ InRun
    /\ Doc # d
    /\ pc \in PipelinePcs

\* C15 (as claimed): a document is never handled twice for one enqueue, and
\* a document enqueued while the worker is draining gets a job of this
\* worker, whatever the number and timing of the notifications, unless
\* shutdown is requested.
C15_ProcessedExactlyOnce ==
    /\ []AtMostOneJobPerSubmission
    /\ \A d \in DocIds :
          EnqueuedMidDrain(d) ~> (JobsFor(d) # {} \/ shutdown_event)

\* The metadata block of finalization raised in the current run: the run
\* returned True, yet the document's metadata does not hold its record.
FinalizationRaised ==
    /\ InRun
    /\ success
    /\ \/ "processing_job_id" \notin DOMAIN docs[Doc].meta
       \/ docs[Doc].meta["processing_job_id"] # Job

\* A stage of the current run raised an error.
StageRaised == InRun /\ (error_msg # None \/ FinalizationRaised)

\* C16 (as claimed): when a stage raised, finalization included, the job
\* record and the document are failed with the error text and cleanup was
\* triggered, once the worker is done with the job.
C16_StageErrorFailsJob ==
    (JobEnded /\ StageRaised /\ ~Requeued)
        => /\ jobs[Job].status = "failed"
           /\ docs[Doc].status = "failed"
           /\ docs[Doc].error # None
           /\ cleanup # "none"

\* C17 (as claimed): the step that handles an error raised at the job
\* boundary records the document as failed and lets no exception out of
\* _process_next_document, so the worker loop keeps running.
C17_BoundaryErrorCaught ==
    [][(pc = "proc_except" /\ pc' # "proc_except")
          => /\ ~raised'
             /\ docs'[document].status = "failed"
             /\ pc' \notin {"loop_except", "dead"}]_vars

\* C18 (as claimed): completed and failed are terminal: no step changes the
\* status of a document that is completed or failed, except the external
\* reset to pending.
C18_OutcomeIsTerminal ==
    [][\A d \in DocIds :
          docs[d].status \in {"completed", "failed"}
              => docs'[d].status \in {docs[d].status, "pending"}]_vars

\* C19: a failed document is not selected again on its own: no document has
\* more jobs than the times it was made eligible (its insert plus the
\* external resets), the worker creates no more jobs than there were
\* submissions, and a document the worker is about to claim is not failed.
C19_NoAutomaticRetry ==
    /\ \A d \in DocIds : Cardinality(JobsFor(d)) <= 1 + resets
    /\ nextJob - 1 <= (nextDoc - 1) + resets
    /\ pc = "claim" => docs[document].status # "failed"

\* C19 witness: a document failed and was never reset; the worker has
\* drained again since, found nothing, and the document still has one job.
C19_Witness ==
    /\ pc = "wait"
    /\ resets = 0
    /\ \E d \in DocIds : docs[d].status = "failed" /\ Cardinality(JobsFor(d)) = 1

\* The worker loop has ended: _worker_loop returned, or an exception left it.
LoopEnded == pc \in {"exited", "dead"}

C23_ConstructedOnce ==
    \A c \in {"embedder", "vector_store"} :
        /\ registry.built[c] <= 1
        /\ registry[c] \in {0, 1}
        /\ registry.returned[c] \subseteq {1}
        /\ registry.returned[c] # {} => registry[c] = 1
        /\ \A t \in Threads : \A i \in 1..Len(callers[t]) : callers[t][i][c] \in {0, 1}

\* C23 witness: both components are built and were handed out, and a thread
\* is returning the embedder while another thread, which called the same
\* accessor, waits for the lock.
C23_Witness ==
    /\ registry.built["embedder"] = 1
    /\ registry.built["vector_store"] = 1
    /\ registry.returned["embedder"] = {1}
    /\ registry.returned["vector_store"] = {1}
    /\ \E t1, t2 \in Threads :
          /\ t1 # t2
          /\ callers[t1] # <<>> /\ callers[t2] # <<>>
          /\ Top(t1).fn = "embedder" /\ Top(t1).at = "exit"
          /\ Top(t2).fn = "embedder" /\ Top(t2).at = "enter"

\* C21 (as claimed): when shutdown was requested during a drain cycle, the
\* worker does not go from the end of that drain into another bounded wait.
C21_NoWaitAfterShutdown ==
    [][(shutdown_event /\ pc = "drain_ret") => pc' # "wait"]_vars

\* C22 (as claimed): after a failure of the notification subscription (the
\* LISTEN or the wait on the connection raised) the worker loop stays alive:
\* its next step takes it back to the loop test, from where it re-subscribes
\* unless shutdown was requested.
C22_SubscriptionFailureSurvived ==
    [][(pc = "loop_except" /\ ~raised) => pc' \in {"loop_except", "outer"}]_vars

\* The settings stored for the owner of a document ({} without a user row).
StoredSettings(d) == get_user(docs[d].user_id).settings

\* The settings the current run loaded: those stored for the owner of its
\* document, or {} when the load failed.
LoadedSettings == IF "settings" \in tolerated THEN EmptyDict ELSE StoredSettings(Doc)

\* The pipeline of the current run is past its configuration step.
Configured ==
    InRun /\ pc \in {"materialize", "extract", "chunk", "index", "complete", "chunk_count",
                     "metadata"}

\* C24: once a run is configured, its processor carries the extraction
\* policy made from the settings loaded for that run's owner, not that of
\* the owner of an earlier job with other settings, and its embedder and
\* vector store are the shared instances, each built once.
C24_PolicyPerJob ==
    /\ Configured => processor.embedder # 0
    /\ (InRun /\ processor.embedder # 0)
          => /\ processor.metadata_extractor.configured_by = LoadedSettings
             /\ \A j \in JobIds :
                   (j < Job /\ StoredSettings(jobs[j].doc_id) # LoadedSettings)
                      => processor.metadata_extractor.configured_by
                            # StoredSettings(jobs[j].doc_id)
             /\ processor.embedder = registry.embedder
             /\ processor.vector_store = registry.vector_store
             /\ processor.vector_store # 0
             /\ registry.built["embedder"] = 1
             /\ registry.built["vector_store"] = 1

\* C24 witness: the second job runs for a document of user 2 after a job for
\* a document of user 1; its policy is made from the settings of user 2 and
\* its embedder is the one built for the first job.
C24_Witness ==
    /\ Configured
    /\ Job = 2
    /\ jobs[1].status = "completed"
    /\ docs[jobs[1].doc_id].user_id = 1
    /\ docs[Doc].user_id = 2
    /\ processor.metadata_extractor.configured_by = Users[2].settings
    /\ processor.embedder = 1
    /\ registry.built["embedder"] = 1

\* The stages of a pipeline, in order.
AllStages == <<"config", "materialize", "extract", "chunk", "index", "finalize">>

\* C25: a push that failed, whatever its error, changes neither the stages
\* a run executes nor its outcome: no run fails with the error of a push,
\* every failure has a cause of its own, the stages entered are an initial
\* part of the full sequence with none repeated, and a run that returned
\* True entered them all.
C25_PushFailureIgnored ==
    InRun
        => /\ error_msg \in {None, "unsupported", "empty", "error"}
           /\ error_msg = "error" => faults > 0
           /\ error_msg = "unsupported" => FileCategory(docs[Doc].filename) = "unsupported"
           /\ error_msg = "empty" => markdown_content = ""
           /\ Len(stages) <= Len(AllStages)
           /\ stages = SubSeq(AllStages, 1, Len(stages))
           /\ success => stages = AllStages

\* C25 witness: a run in which a push failed has ended completed, with every
\* stage executed.
C25_Witness ==
    /\ JobEnded
    /\ success
    /\ "push" \in tolerated
    /\ stages = AllStages
    /\ docs[Doc].status = "completed"

\* C26 (as claimed): after each checkpoint of a run the job-scoped record
\* and the document-scoped record both carry the progress of that
\* checkpoint.
C26_BothRecordsAtCheckpoints ==
    (InRun /\ pc \in PipelinePcs \ {"start"})
        => /\ \E r \in job_rows : r.id = Job /\ r.progress = jobs[Job].progress
           /\ docs[Doc].progress = jobs[Job].progress

\* C27 (as claimed): a run that has started has exactly one durable job
\* record with its job id, and when the run has ended that record is
\* completed or failed as the run is, with the error text on failure.
C27_OneJobRecordPerRun ==
    /\ (InRun /\ pc \in PipelinePcs \ {"start"})
          => Cardinality({r \in job_rows : r.id = Job}) = 1
    /\ JobEnded
          => \E r \in job_rows :
                /\ r.id = Job
                /\ r.status = FinalStatus(success)
                /\ ~success => r.error = ErrorText(error_msg)

\* C28: settings that are absent, empty or unreadable do not fail the run:
\* whenever the run is configured for an owner without stored settings, or
\* after a load that failed, its policy is made from the empty
\* configuration, and a run whose load failed has not failed before
\* materialization.
C28_SettingsDegradeToEmpty ==
    /\ (InRun /\ processor.embedder # 0
             /\ ("settings" \in tolerated \/ docs[Doc].user_id \notin {1, 2}))
          => processor.metadata_extractor.configured_by = EmptyDict
    /\ (InRun /\ "settings" \in tolerated)
          => /\ pc \in PipelinePcs \ {"start", "config"} => processor.embedder # 0
             /\ error_msg # None => "materialize" \in StagesRun

\* C28 witness: a run whose load of the settings failed has ended completed.
C28_Witness ==
    /\ JobEnded
    /\ success
    /\ "settings" \in tolerated
    /\ processor.metadata_extractor.configured_by = EmptyDict
    /\ docs[Doc].status = "completed"

\* C29: when the chunker produced no chunk, the embed-and-index stage makes
\* no embed call and no index write and counts no chunk, it does not fail
\* the run, and the run that completes leaves the chunk count 0.
C29_NoChunksNoIndexing ==
    (InRun /\ "index" \in StagesRun /\ chunks = 0)
        => /\ embedCalls = 0
           /\ indexWrites = 0
           /\ chunks_added_count = 0
           /\ error_msg # None => "finalize" \in StagesRun
           /\ success => /\ docs[Doc].status = "completed"
                         /\ docs[Doc].chunk_count = 0

\* C29 witness: a run without chunks has ended completed with chunk count 0.
C29_Witness ==
    /\ JobEnded
    /\ success
    /\ "index" \in StagesRun
    /\ chunks = 0
    /\ embedCalls = 0
    /\ docs[Doc].status = "completed"
    /\ docs[Doc].chunk_count = 0

\* Cleanup of the current run reported issues or raised.
CleanupFailed == InRun /\ cleanup \in {"issues", "raised"}

\* C30: a cleanup that reported issues or raised leaves the outcome as it
\* was: the step changes no document, the document stays failed, no
\* exception is propagating, and the worker goes on to its next selection
\* unless shutdown is requested.
C30_CleanupFailureIgnored ==
    /\ [](CleanupFailed => /\ pc = "finally"
                           /\ ~raised
                           /\ ~success
                           /\ docs[Doc].status = "failed" \/ Requeued)
    /\ [][(pc = "cleanup" /\ pc' # "cleanup") => (docs' = docs /\ jobs' = jobs)]_vars
    /\ CleanupFailed ~> (pc = "select" \/ shutdown_event)

\* C30 witness: cleanup raised for a failed document while another document
\* is waiting to be selected.
C30_Witness ==
    /\ CleanupFailed
    /\ cleanup = "raised"
    /\ docs[Doc].status = "failed"
    /\ \E d \in DocIds : d # Doc /\ Eligible(docs[d])

\* C31: the stages a run has entered are always an initial part of
\* resolve-configuration, materialize, extract-and-convert, chunk,
\* embed-and-index, finalize, each at most once, every step of a run adds at
\* most the one stage that follows those entered, and once a stage of the
\* run has raised no stage is entered any more.
C31_StagesInOrder ==
    /\ [](InRun => /\ Len(stages) <= Len(AllStages)
                   /\ \A i \in 1..Len(stages) : stages[i] = AllStages[i]
                   /\ \A i, k \in 1..Len(stages) : stages[i] = stages[k] => i = k)
    /\ [][(InRun /\ stages' # stages /\ stages' # <<>>)
             => /\ error_msg = None
                /\ stages' = Append(stages, AllStages[Len(stages) + 1])]_vars

\* C31 witness: a run whose chunk stage raised has ended with the first four
\* stages entered and nothing after them.
C31_Witness ==
    /\ JobEnded
    /\ ~success
    /\ error_msg = "error"
    /\ stages = <<"config", "materialize", "extract", "chunk">>
    /\ docs[Doc].status = "failed"

\* The last progress and status the current run wrote for its document.
LastWritten == observed[Len(observed)]

\* The pipeline of the current run has made a document write.
Reported == InRun /\ pc \in PipelinePcs \ {"start"} /\ observed # <<>>

\* C32: while a run is in its pipeline, storage shows for its document the
\* progress and status of the last checkpoint written, also while a stage
\* that raised has not yet been recorded as failed; and when the process is
\* killed at that point, storage still shows them after the restart.
C32_CheckpointsDurable ==
    /\ [](Reported => /\ docs[Doc].progress = LastWritten[1]
                      /\ docs[Doc].status = LastWritten[2])
    /\ [][(Reported /\ crash'.count # crash.count)
             => /\ docs'[Doc].progress = LastWritten[1]
                /\ docs'[Doc].status = LastWritten[2]]_vars

\* C32 witness: the process was killed after checkpoint 50 was written and
\* before the run ended, and storage shows 50 after the restart.
C32_Witness ==
    /\ crash.count = 1
    /\ \E d \in crash.stuck : docs[d].status = "processing" /\ docs[d].progress = 50

\* C33: a document that was in processing when the process was killed stays
\* in processing: after the restart the worker never selects it and never has
\* a job for it, no step changes its row, and no step removes its artifacts
\* or index entries.
C33_StuckInProcessing ==
    /\ [](\A d \in crash.stuck : /\ docs[d].status = "processing"
                                 /\ document # d
                                 /\ current_job.doc_id # d)
    /\ [][\A d \in crash.stuck : /\ docs'[d] = docs[d]
                                 /\ (d \in mdFiles') = (d \in mdFiles)
                                 /\ (d \in jsonFiles') = (d \in jsonFiles)
                                 /\ indexed'[d] = indexed[d]]_vars

\* C33 witness: the process was killed during the first job; after the
\* restart the worker completed a second job for another document and then
\* found the queue empty, the first document still in processing.
C33_Witness ==
    /\ crash.count = 1
    /\ pc = "drain_ret"
    /\ last_selection = "none"
    /\ \E d \in crash.stuck, e \in DocIds :
          /\ d # e
          /\ jobs[1].doc_id = d
          /\ jobs[2].doc_id = e
          /\ docs[d].status = "processing"
          /\ docs[e].status = "completed"

\* C34: the document of a call is the one the selector returns, whatever
\* the notification carried, and a call made for a notification while no
\* document is eligible returns without a job and without a change to any
\* document, artifact or index entry.
C34_PayloadIsOnlyAHint ==
    /\ [][(pc = "select" /\ pc' # "select")
             => document' = get_next_queued_document(docs)]_vars
    /\ [][(pc = "select" /\ pc' # "select" /\ caller = "poll" /\ hint # 0
              /\ get_next_queued_document(docs) = 0)
             => /\ pc' = "poll"
                /\ ~result'
                /\ current_job' = NoJob
                /\ ~is_processing'
                /\ UNCHANGED <<docs, jobs, nextJob, mdFiles, jsonFiles, indexed>>]_vars

\* C34 witness: a notification is being handled that names a document
\* already completed, while no document is eligible.
C34_Witness ==
    /\ pc = "select"
    /\ caller = "poll"
    /\ hint \in DocIds
    /\ docs[hint].status = "completed"
    /\ get_next_queued_document(docs) = 0

\* Positions of the worker between a successful selection and the end of
\* the finally block of that call.
InCallPcs == PipelinePcs \cup {"claim", "final", "cleanup", "proc_except", "finally"}

C35_FailedJobKeepsDraining ==
    [][(pc = "finally" /\ ~is_processing /\ pc' # "finally"
           /\ ~success /\ docs[document].status = "failed")
          => /\ result'
             /\ pc' = IF caller = "drain" THEN "drain_ret" ELSE "poll"]_vars

\* C36 (as claimed): without an external reset, every document a call
\* selected has left the eligible set when the call ends, so that each
\* selection of a drain cycle takes one document out of those eligible at
\* its start.
C36_SelectedLeavesQueue ==
    (pc = "finally" /\ resets = 0) => ~Eligible(docs[document])

\* C37 (as claimed): a document in status completed carries no error
\* message.
C37_CompletedHasNoError ==
    \A d \in DocIds : docs[d].status = "completed" => docs[d].error = None

\* C38 (as claimed): when a run has ended with its document completed, the
\* metadata map of the document names the run's job, has status completed
\* and counts the chunks the document's chunk count gives.
C38_MetadataRecordsRun ==
    (JobEnded /\ success /\ docs[Doc].status = "completed")
        => /\ {"processing_job_id", "status", "chunks_added_to_vector_store"}
                  \subseteq DOMAIN docs[Doc].meta
           /\ docs[Doc].meta["processing_job_id"] = Job
           /\ docs[Doc].meta["status"] = "completed"
           /\ docs[Doc].meta["chunks_added_to_vector_store"] = docs[Doc].chunk_count

\* A call of thread t is in progress.
InCall(t) == callers[t] # <<>>

=============================================================================
